---- MODULE Spec2Model ----
(***************************************************************************)
(* okta2aws: exchange of Okta credentials for temporary AWS credentials.   *)
(* The model follows src/okta2aws.py: assume() calls getOktaUrl, oktaAuth, *)
(* oktaGetSamlResponse and awsAssumeRole in sequence; a failure is the     *)
(* Python exception that the failing statement raises, which nothing in    *)
(* the module catches.                                                     *)
(*                                                                         *)
(* Texts (URLs, base64 text, attribute values) are sequences of tokens, so *)
(* that concatenation, splitting, percent-encoding and URL parsing are     *)
(* computed on them as the code computes them on characters.               *)
(***************************************************************************)
EXTENDS Integers, Sequences, FiniteSets, TLC

\* ------------------------------------------------------------------ bounds
\* largest number of saml2:Attribute elements in an attribute statement
MaxAttrs == 2
\* largest number of comma-separated segments in an attribute-value text
MaxSegments == 3
\* largest number of input elements in the HTML page of the SAML redirect
MaxInputs == 2

\* ------------------------------------------------------------- text helpers
Range(s) == { s[i] : i \in 1..Len(s) }

IsPrefix(s, t) == Len(s) <= Len(t) /\ SubSeq(t, 1, Len(s)) = s

FirstIndex(s, tok) == CHOOSE i \in 1..Len(s) : s[i] = tok /\ \A j \in 1..(i-1) : s[j] # tok

\* the longest prefix of s that holds no token of stop
RECURSIVE TakeUntil(_, _)
TakeUntil(s, stop) ==
    IF s = <<>> \/ Head(s) \in stop THEN <<>>
    ELSE <<Head(s)>> \o TakeUntil(Tail(s), stop)

RECURSIVE Count(_, _)
Count(s, tok) ==
    IF s = <<>> THEN 0
    ELSE (IF Head(s) = tok THEN 1 ELSE 0) + Count(Tail(s), tok)

\* ------------------------------------------------------------------ inputs
Username == "alice"
Password == "hunter2"

SchemeTokens == {"https", "http", "ftp"}
\* tokens that end the authority part of a URL
PathTokens ==
    {"/home/amazon_aws/0oa123/272", "/api/v1/authn", "/login/sessionCookieRedirect",
     "/", "?", "#"}

\* the oktaForwardUrl values a caller may pass to assume()
FullUrls ==
    { <<"https", ":", "//", "okta.example.com", "/home/amazon_aws/0oa123/272">>,
      <<"http", ":", "//", "okta.example.com", "/home/amazon_aws/0oa123/272">>,
      <<"ftp", ":", "//", "okta.example.com", "/home/amazon_aws/0oa123/272">>,
      <<"okta.example.com", "/home/amazon_aws/0oa123/272">>,
      <<"//", "okta.example.com", "/home/amazon_aws/0oa123/272">>,
      <<"https", ":", "/home/amazon_aws/0oa123/272">>,
      <<"https", ":", "//", "[okta.example.com", "/home/amazon_aws/0oa123/272">>,
      <<>> }

\* ------------------------------------------------------- urllib.parse.urlparse
HasScheme(url) == Len(url) >= 2 /\ url[1] \in SchemeTokens /\ url[2] = ":"

SchemeOf(url) == IF HasScheme(url) THEN <<url[1]>> ELSE <<>>

AfterScheme(url) == IF HasScheme(url) THEN SubSeq(url, 3, Len(url)) ELSE url

NetlocOf(url) ==
    LET rest == AfterScheme(url)
    IN  IF rest # <<>> /\ Head(rest) = "//" THEN TakeUntil(Tail(rest), PathTokens)
        ELSE <<>>

\* urlsplit raises ValueError("Invalid IPv6 URL") on an unmatched bracket
UrlparseRaises(url) == \E i \in 1..Len(NetlocOf(url)) : NetlocOf(url)[i] = "[okta.example.com"

\* getOktaUrl: urlTuple.scheme + "://" + urlTuple.netloc
getOktaUrl(fullUrl) == SchemeOf(fullUrl) \o <<":", "//">> \o NetlocOf(fullUrl)

\* ------------------------------------------- requests: checks before sending
\* requests refuses a URL it cannot send: no connection adapter for a scheme
\* other than http/https (InvalidSchema), no host (InvalidURL).
RequestsRefusal(url) ==
    IF SchemeOf(url) = <<>> \/ SchemeOf(url)[1] \notin {"https", "http"} THEN "InvalidSchema"
    ELSE IF NetlocOf(url) = <<>> THEN "InvalidURL"
    ELSE ""

\* ----------------------------------------------------------- Okta responses
SessionTokens == {"20111abc123"}

NoAuthResp == [status |-> 0, json |-> FALSE, hasToken |-> FALSE, token |-> ""]

\* responses of POST /api/v1/authn: status, whether the body is JSON, whether
\* the JSON object has a sessionToken field, and its value
AuthResponses ==
    { [status |-> st, json |-> TRUE, hasToken |-> TRUE, token |-> t] :
          st \in {200, 401}, t \in SessionTokens }
    \cup { [status |-> st, json |-> TRUE, hasToken |-> FALSE, token |-> ""] : st \in {200, 401} }
    \cup { [status |-> st, json |-> FALSE, hasToken |-> FALSE, token |-> ""] : st \in {401, 502} }

\* ------------------------------------------------- percent and base64 coding
\* urllib.parse.unquote on one token
UnquoteToken(tok) ==
    CASE tok = "%3D" -> "="
      [] tok = "%21" -> "!"
      [] OTHER -> tok

unquote(s) == [i \in 1..Len(s) |-> UnquoteToken(s[i])]

\* urllib.parse.quote_plus on one token
QuotePlusToken(tok) ==
    CASE tok = "=" -> "%3D"
      [] tok = "!" -> "%21"
      [] OTHER -> tok

quote_plus(s) == [i \in 1..Len(s) |-> QuotePlusToken(s[i])]

\* the base64 body of the assertion; its length leaves two characters of padding
B64Body == "PHNhbWxwOlJlc3BvbnNlPg"

\* the value attributes an Okta page may carry in its SAMLResponse input
SamlValues ==
    { <<B64Body, "%3D", "%3D">>,
      <<"%21", B64Body, "%3D", "%3D">>,
      <<B64Body, "%3D">>,
      <<>> }

\* base64.b64decode without validate: characters outside the alphabet are
\* dropped, then the padding is checked
B64Alphabet == {B64Body, "="}

RECURSIVE B64Filter(_)
B64Filter(s) ==
    IF s = <<>> THEN <<>>
    ELSE (IF Head(s) \in B64Alphabet THEN <<Head(s)>> ELSE <<>>) \o B64Filter(Tail(s))

B64HasData(s) == B64Body \in Range(B64Filter(s))

B64Raises(s) == B64HasData(s) /\ Count(B64Filter(s), "=") < 2

\* ------------------------------------------------------------ SAML documents
P1 == "arn:aws:iam::111111111111:saml-provider/Example"
R1 == "arn:aws:iam::111111111111:role/ExampleRole"
R2 == "arn:aws:iam::111111111111:role/Dev"

Segments == { <<P1>>, <<R1>>, <<R2, "&", "DurationSeconds=43200">> }

RECURSIVE TextsWith(_)
TextsWith(k) ==
    IF k <= 1 THEN Segments
    ELSE { s \o <<",">> \o t : s \in Segments, t \in TextsWith(k - 1) }

AttrTexts == UNION { TextsWith(k) : k \in 1..MaxSegments }

\* how xmltodict renders the first attribute's saml2:AttributeValue
ValueShapes == {"absent", "text_only", "attrs_text", "attrs_no_text"}

Doc(w, r, a, s, n, shape, text) ==
    [wellformed |-> w, response |-> r, assertion |-> a, statement |-> s,
     nAttrs |-> n, shape |-> shape, text |-> text]

\* the bytes of no document (an empty byte string)
NoDoc == Doc(FALSE, FALSE, FALSE, FALSE, 0, "absent", <<>>)

SamlDocs ==
    { Doc(FALSE, TRUE, TRUE, TRUE, 2, "attrs_text", <<P1, ",", R1>>),
      Doc(TRUE, FALSE, FALSE, FALSE, 0, "absent", <<>>),
      Doc(TRUE, TRUE, FALSE, FALSE, 0, "absent", <<>>),
      Doc(TRUE, TRUE, TRUE, FALSE, 0, "absent", <<>>),
      Doc(TRUE, TRUE, TRUE, TRUE, 0, "absent", <<>>) }
    \cup { Doc(TRUE, TRUE, TRUE, TRUE, n, sh, <<P1, ",", R1>>) :
              n \in 1..MaxAttrs, sh \in ValueShapes \ {"attrs_text"} }
    \cup { Doc(TRUE, TRUE, TRUE, TRUE, n, "attrs_text", t) :
              n \in 1..MaxAttrs, t \in AttrTexts }

\* xmltodict.parse raises ExpatError on bytes that are no well-formed document
XmlRaises(d) == ~d.wellformed

\* every node of the path Response, Assertion, AttributeStatement, first
\* Attribute, AttributeValue text is in the document
PathPresent(d) ==
    d.response /\ d.assertion /\ d.statement /\ d.nAttrs >= 1
    /\ d.shape \in {"text_only", "attrs_text"}

\* arnDict['saml2p:Response']['saml2:Assertion']['saml2:AttributeStatement']
\*        ['saml2:Attribute'][0]['saml2:AttributeValue']['#text']
\* on the dictionary xmltodict builds: an element without children is None,
\* one child element is a dict, repeated child elements are a list, an
\* element with text only is a str, with attributes and text a dict with '#text'.
Navigate(d) ==
    CASE ~d.response -> [ok |-> FALSE, kind |-> "KeyError", value |-> <<>>]
      [] d.response /\ ~d.assertion -> [ok |-> FALSE, kind |-> "KeyError", value |-> <<>>]
      [] d.response /\ d.assertion /\ ~d.statement ->
            [ok |-> FALSE, kind |-> "KeyError", value |-> <<>>]
      [] d.response /\ d.assertion /\ d.statement /\ d.nAttrs = 0 ->
            [ok |-> FALSE, kind |-> "TypeError", value |-> <<>>]
      [] d.response /\ d.assertion /\ d.statement /\ d.nAttrs = 1 ->
            [ok |-> FALSE, kind |-> "KeyError", value |-> <<>>]
      [] OTHER ->
            CASE d.shape = "absent" -> [ok |-> FALSE, kind |-> "KeyError", value |-> <<>>]
              [] d.shape = "text_only" -> [ok |-> FALSE, kind |-> "TypeError", value |-> <<>>]
              [] d.shape = "attrs_no_text" -> [ok |-> FALSE, kind |-> "KeyError", value |-> <<>>]
              [] OTHER -> [ok |-> TRUE, kind |-> "", value |-> d.text]

\* str.split(",")
RECURSIVE split(_)
split(s) ==
    IF "," \notin Range(s) THEN <<s>>
    ELSE LET i == FirstIndex(s, ",")
         IN  <<SubSeq(s, 1, i - 1)>> \o split(SubSeq(s, i + 1, Len(s)))

\* a split step that asks for the last segment, split(",")[-1], never raises
SplitRaises_LastSegment(text) == Len(split(text)) < 1

\* arnStr.split(",")[1] raises IndexError when the text has fewer than two segments
SplitRaises(text) == Len(split(text)) < 2

\* arnStr.split(",")[1]
RoleOf(text) == IF Len(split(text)) >= 2 THEN split(text)[2] ELSE <<>>

\* arnStr.split(",")[0]
PrincipalOf(text) == split(text)[1]

\* ------------------------------------------------------------ the Okta page
InputElems ==
    { [name |-> "SAMLResponse", hasValue |-> TRUE, value |-> v] : v \in SamlValues }
    \cup { [name |-> "SAMLResponse", hasValue |-> FALSE, value |-> <<>>],
           [name |-> "RelayState", hasValue |-> TRUE, value |-> <<>>] }

\* the input elements of the page, in document order
SamlPages == UNION { [1..n -> InputElems] : n \in 0..MaxInputs }

\* bs.find("input", {"name": "SAMLResponse"}): the first match, 0 for None
Find(page) ==
    IF \E i \in 1..Len(page) : page[i].name = "SAMLResponse"
    THEN CHOOSE i \in 1..Len(page) :
             page[i].name = "SAMLResponse" /\ \A j \in 1..(i-1) : page[j].name # "SAMLResponse"
    ELSE 0

\* the documents that the base64 text served in a page may encode
DocsFor(page) ==
    IF Find(page) # 0 /\ page[Find(page)].hasValue
       /\ B64HasData(unquote(page[Find(page)].value))
       /\ ~B64Raises(unquote(page[Find(page)].value))
    THEN SamlDocs ELSE {NoDoc}

\* ------------------------------------------------------------ STS responses
NoCreds == [AccessKeyId |-> "", SecretAccessKey |-> "", SessionToken |-> "", Expiration |-> ""]

CredValues ==
    { [AccessKeyId |-> "ASIAEXAMPLE1", SecretAccessKey |-> "secret1",
       SessionToken |-> "awstoken1", Expiration |-> "2021-09-24T12:00:00Z"],
      [AccessKeyId |-> "ASIAEXAMPLE2", SecretAccessKey |-> "secret2",
       SessionToken |-> "awstoken2", Expiration |-> "2021-09-24T13:00:00Z"] }

NoStsResp == [wellformed |-> FALSE, root |-> "", result |-> FALSE, credentials |-> FALSE,
              creds |-> NoCreds]

StsResponses ==
    { [wellformed |-> FALSE, root |-> "AssumeRoleWithSAMLResponse", result |-> FALSE,
       credentials |-> FALSE, creds |-> NoCreds],
      [wellformed |-> TRUE, root |-> "ErrorResponse", result |-> FALSE,
       credentials |-> FALSE, creds |-> NoCreds],
      [wellformed |-> TRUE, root |-> "AssumeRoleWithSAMLResponse", result |-> FALSE,
       credentials |-> FALSE, creds |-> NoCreds],
      [wellformed |-> TRUE, root |-> "AssumeRoleWithSAMLResponse", result |-> TRUE,
       credentials |-> FALSE, creds |-> NoCreds] }
    \cup { [wellformed |-> TRUE, root |-> "AssumeRoleWithSAMLResponse", result |-> TRUE,
            credentials |-> TRUE, creds |-> c] : c \in CredValues }

\* ------------------------------------------------------------ request URLs
\* oktaUrl + "/api/v1/authn"
AuthUrl(origin) == origin \o <<"/api/v1/authn">>

\* json.dumps({ "username":username, "password":password })
AuthBody(username, password) ==
    <<"{\"username\": ", username, ", \"password\": ", password, "}">>

\* samlUrl + sessionToken + "&redirectUrl=" + oktaForwardUrl
SamlUrl(origin, token, forwardUrl) ==
    origin \o <<"/login/sessionCookieRedirect", "?", "checkAccountSetupComplete=true",
                "&", "token=", token, "&", "redirectUrl=">> \o forwardUrl

\* the STS request URL, built by string concatenation
AwsReqUrl(role, principal, saml) ==
    <<"https", ":", "//", "sts.amazonaws.com", "/", "?", "Version=2011-06-15",
      "&", "Action=AssumeRoleWithSAML", "&", "RoleArn=">> \o role
    \o <<"&", "PrincipalArn=">> \o principal
    \o <<"&", "SAMLAssertion=">> \o quote_plus(saml)

\* the value that a request URL carries for a query parameter: what follows
\* the first "key=" up to the next "&"
QueryParam(url, key) ==
    IF key \in Range(url)
    THEN TakeUntil(SubSeq(url, FirstIndex(url, key) + 1, Len(url)), {"&", "#"})
    ELSE <<>>

\* ------------------------------------------------------------------- state
VARIABLES
    pc,              \* the statement assume() is at
                     \* (a function's locals are kept until the next function is called)
    oktaForwardUrl,  \* the argument of assume()
    oktaUrl,         \* result of getOktaUrl
    authResp,        \* oktaAuth: response of the POST
    sessionToken,    \* result of oktaAuth
    samlPage,        \* oktaGetSamlResponse: the input elements of the page
    assertionDoc,    \* the document the served base64 text encodes
    samlb64enc,      \* result of oktaGetSamlResponse
    decoded,         \* awsAssumeRole: result of base64.b64decode
    arnDict,         \* awsAssumeRole: result of xmltodict.parse
    arnStr,          \* awsAssumeRole: the attribute-value text
    roleArn,
    principalArn,
    stsResp,         \* awsAssumeRole: the parsed STS response
    creds,           \* result of awsAssumeRole and of assume
    err,             \* the exception that ended the run
    calls,           \* the functions assume() has called, in order
    completed,       \* the functions that have returned
    reqs,            \* the HTTP requests sent, in order
    steps,           \* the local steps of awsAssumeRole that have succeeded
    prev             \* kind and cause of the failure of the caller's previous run

vars == <<pc, oktaForwardUrl, oktaUrl, authResp, sessionToken, samlPage, assertionDoc,
          samlb64enc, decoded, arnDict, arnStr, roleArn, principalArn, stsResp, creds,
          err, calls, completed, reqs, steps, prev>>

StageOrder == <<"getOktaUrl", "oktaAuth", "oktaGetSamlResponse", "awsAssumeRole">>

LocalSteps == <<"b64decode", "parse", "navigate", "split">>

\* kind is the class of the Python exception, url the request URL that a
\* requests exception names in its message; cause records what went wrong
\* outside the program, which the exception does not carry
NoErr == [kind |-> "", cause |-> "", stage |-> "", step |-> "", url |-> <<>>]

NoPrev == [kind |-> "", cause |-> ""]

\* an uncaught exception ends the run; a requests exception names the URL
Raise(kind, cause, stage, step, url) ==
    /\ pc' = "failed"
    /\ err' = [kind |-> kind, cause |-> cause, stage |-> stage, step |-> step, url |-> url]

Request(stage, method, url, body) ==
    [stage |-> stage, method |-> method, url |-> url, body |-> body]

\* a statement with a try/except around oktaAuth that goes on to the SAML request
At_SwallowsAuthFailure(label) ==
    \/ pc = label
    \/ label = "saml_get" /\ pc = "failed" /\ err.stage = "oktaAuth"

\* assume() and the functions it calls are straight-line code: a statement
\* runs when the statement before it has returned, and never after an exception
At(label) == pc = label

Start(url) ==
    /\ pc = "start"
    /\ oktaForwardUrl = url
    /\ oktaUrl = <<>>
    /\ authResp = NoAuthResp
    /\ sessionToken = ""
    /\ samlPage = <<>>
    /\ assertionDoc = NoDoc
    /\ samlb64enc = <<>>
    /\ decoded = NoDoc
    /\ arnDict = NoDoc
    /\ arnStr = <<>>
    /\ roleArn = <<>>
    /\ principalArn = <<>>
    /\ stsResp = NoStsResp
    /\ creds = NoCreds
    /\ err = NoErr
    /\ calls = <<>>
    /\ completed = {}
    /\ reqs = <<>>
    /\ steps = <<>>

Init == (\E url \in FullUrls : Start(url)) /\ prev = NoPrev

\* ----------------------------------------------------------------- assume()
\* oktaUrl = getOktaUrl(oktaForwardUrl)
CallGetOktaUrl ==
    /\ At("start")
    /\ calls' = Append(calls, "getOktaUrl")
    /\ IF UrlparseRaises(oktaForwardUrl)
       THEN /\ Raise("ValueError", "invalid_url", "getOktaUrl", "urlparse", <<>>)
            /\ UNCHANGED <<oktaUrl, completed>>
       ELSE /\ oktaUrl' = getOktaUrl(oktaForwardUrl)
            /\ completed' = completed \cup {"getOktaUrl"}
            /\ pc' = "auth_post"
            /\ UNCHANGED err
    /\ UNCHANGED <<oktaForwardUrl, authResp, sessionToken, samlPage, assertionDoc,
                   samlb64enc, decoded, arnDict, arnStr, roleArn, principalArn, stsResp,
                   creds, reqs, steps, prev>>

\* oktaAuth: requests.post(oktaAuthUrl, headers=headerDict, data=oktaCreds)
OktaAuthPost ==
    /\ At("auth_post")
    /\ calls' = Append(calls, "oktaAuth")
    /\ LET url == AuthUrl(oktaUrl)
       IN  IF RequestsRefusal(url) # ""
           THEN /\ Raise(RequestsRefusal(url), "invalid_url", "oktaAuth", "post", url)
                /\ UNCHANGED <<reqs, authResp>>
           ELSE /\ reqs' = Append(reqs, Request("oktaAuth", "POST", url,
                                                AuthBody(Username, Password)))
                /\ \/ /\ Raise("ConnectionError", "network", "oktaAuth", "post", url)
                      /\ UNCHANGED authResp
                   \/ /\ \E r \in AuthResponses : authResp' = r
                      /\ pc' = "auth_return"
                      /\ UNCHANGED err
    /\ UNCHANGED <<oktaForwardUrl, oktaUrl, sessionToken, samlPage, assertionDoc,
                   samlb64enc, decoded, arnDict, arnStr, roleArn, principalArn, stsResp,
                   creds, completed, steps, prev>>

\* oktaAuth: return response.json()['sessionToken']
OktaAuthReturn ==
    /\ At("auth_return")
    /\ IF ~authResp.json
       THEN /\ Raise("JSONDecodeError",
                     IF authResp.status = 401 THEN "credentials_rejected"
                     ELSE "bad_response_format",
                     "oktaAuth", "json", <<>>)
            /\ UNCHANGED <<sessionToken, completed>>
       ELSE IF ~authResp.hasToken
       THEN /\ Raise("KeyError", "credentials_rejected", "oktaAuth", "sessionToken", <<>>)
            /\ UNCHANGED <<sessionToken, completed>>
       ELSE /\ sessionToken' = authResp.token
            /\ completed' = completed \cup {"oktaAuth"}
            /\ pc' = "saml_get"
            /\ UNCHANGED err
    /\ UNCHANGED <<oktaForwardUrl, oktaUrl, authResp, samlPage, assertionDoc, samlb64enc,
                   decoded, arnDict, arnStr, roleArn, principalArn, stsResp, creds, calls,
                   reqs, steps, prev>>

\* oktaGetSamlResponse: requests.get(samlUrl + sessionToken + "&redirectUrl=" + ...)
\* (the URL has the origin of the authentication URL, which requests accepted)
SamlGet ==
    /\ At("saml_get")
    /\ calls' = Append(calls, "oktaGetSamlResponse")
    /\ authResp' = NoAuthResp
    /\ LET url == SamlUrl(oktaUrl, sessionToken, oktaForwardUrl)
       IN  /\ reqs' = Append(reqs, Request("oktaGetSamlResponse", "GET", url, <<>>))
           /\ \/ /\ Raise("ConnectionError", "network", "oktaGetSamlResponse", "get", url)
                 /\ UNCHANGED <<samlPage, assertionDoc>>
              \/ /\ \E page \in SamlPages : \E doc \in DocsFor(page) :
                        /\ samlPage' = page
                        /\ assertionDoc' = doc
                 /\ pc' = "saml_extract"
                 /\ UNCHANGED err
    /\ UNCHANGED <<oktaForwardUrl, oktaUrl, sessionToken, samlb64enc, decoded, arnDict,
                   arnStr, roleArn, principalArn, stsResp, creds, completed, steps, prev>>

\* oktaGetSamlResponse: bs.find("input", {"name": "SAMLResponse"})['value'], unquote
SamlExtract ==
    /\ At("saml_extract")
    /\ IF Find(samlPage) = 0
       THEN /\ Raise("TypeError", "saml_element_missing", "oktaGetSamlResponse", "find", <<>>)
            /\ UNCHANGED <<samlb64enc, completed>>
       ELSE IF ~samlPage[Find(samlPage)].hasValue
       THEN /\ Raise("KeyError", "saml_value_missing", "oktaGetSamlResponse", "value", <<>>)
            /\ UNCHANGED <<samlb64enc, completed>>
       ELSE /\ samlb64enc' = unquote(samlPage[Find(samlPage)].value)
            /\ completed' = completed \cup {"oktaGetSamlResponse"}
            /\ pc' = "aws_decode"
            /\ UNCHANGED err
    /\ UNCHANGED <<oktaForwardUrl, oktaUrl, authResp, sessionToken, samlPage, assertionDoc,
                   decoded, arnDict, arnStr, roleArn, principalArn, stsResp, creds, calls,
                   reqs, steps, prev>>

\* awsAssumeRole: base64.b64decode(samlb64enc)
AwsDecode ==
    /\ At("aws_decode")
    /\ calls' = Append(calls, "awsAssumeRole")
    /\ samlPage' = <<>>
    /\ IF B64Raises(samlb64enc)
       THEN /\ Raise("binascii.Error", "bad_encoding", "awsAssumeRole", "b64decode", <<>>)
            /\ UNCHANGED <<decoded, steps>>
       ELSE /\ decoded' = IF B64HasData(samlb64enc) THEN assertionDoc ELSE NoDoc
            /\ steps' = Append(steps, "b64decode")
            /\ pc' = "aws_parse"
            /\ UNCHANGED err
    /\ UNCHANGED <<oktaForwardUrl, oktaUrl, authResp, sessionToken, assertionDoc,
                   samlb64enc, arnDict, arnStr, roleArn, principalArn, stsResp, creds,
                   completed, reqs, prev>>

\* awsAssumeRole: arnDict = xmltodict.parse(...)
AwsParse ==
    /\ At("aws_parse")
    /\ IF XmlRaises(decoded)
       THEN /\ Raise("ExpatError", "bad_xml", "awsAssumeRole", "parse", <<>>)
            /\ UNCHANGED <<arnDict, steps>>
       ELSE /\ arnDict' = decoded
            /\ steps' = Append(steps, "parse")
            /\ pc' = "aws_navigate"
            /\ UNCHANGED err
    /\ UNCHANGED <<oktaForwardUrl, oktaUrl, authResp, sessionToken, samlPage, assertionDoc,
                   samlb64enc, decoded, arnStr, roleArn, principalArn, stsResp, creds,
                   calls, completed, reqs, prev>>

\* awsAssumeRole: arnStr = arnDict['saml2p:Response'] ... ['#text']
AwsNavigate ==
    /\ At("aws_navigate")
    /\ IF ~Navigate(arnDict).ok
       THEN /\ Raise(Navigate(arnDict).kind,
                     IF PathPresent(arnDict) THEN "role_attribute_present"
                     ELSE "missing_role_attribute",
                     "awsAssumeRole", "navigate", <<>>)
            /\ UNCHANGED <<arnStr, steps>>
       ELSE /\ arnStr' = Navigate(arnDict).value
            /\ steps' = Append(steps, "navigate")
            /\ pc' = "aws_split"
            /\ UNCHANGED err
    /\ UNCHANGED <<oktaForwardUrl, oktaUrl, authResp, sessionToken, samlPage, assertionDoc,
                   samlb64enc, decoded, arnDict, roleArn, principalArn, stsResp, creds,
                   calls, completed, reqs, prev>>

\* awsAssumeRole: roleArn = arnStr.split(",")[1]; principalArn = arnStr.split(",")[0]
AwsSplit ==
    /\ At("aws_split")
    /\ IF SplitRaises(arnStr)
       THEN /\ Raise("IndexError", "malformed_arn_pair", "awsAssumeRole", "split", <<>>)
            /\ UNCHANGED <<roleArn, principalArn, steps>>
       ELSE /\ roleArn' = RoleOf(arnStr)
            /\ principalArn' = PrincipalOf(arnStr)
            /\ steps' = Append(steps, "split")
            /\ pc' = "aws_request"
            /\ UNCHANGED err
    /\ UNCHANGED <<oktaForwardUrl, oktaUrl, authResp, sessionToken, samlPage, assertionDoc,
                   samlb64enc, decoded, arnDict, arnStr, stsResp, creds, calls, completed,
                   reqs, prev>>

\* awsAssumeRole: awsXml = requests.get(awsReqUrl)._content.decode()
AwsRequest ==
    /\ At("aws_request")
    /\ LET url == AwsReqUrl(roleArn, principalArn, samlb64enc)
       IN  /\ reqs' = Append(reqs, Request("awsAssumeRole", "GET", url, <<>>))
           /\ \/ /\ Raise("ConnectionError", "network", "awsAssumeRole", "get", url)
                 /\ UNCHANGED stsResp
              \/ /\ \E r \in StsResponses : stsResp' = r
                 /\ pc' = "aws_return"
                 /\ UNCHANGED err
    /\ UNCHANGED <<oktaForwardUrl, oktaUrl, authResp, sessionToken, samlPage, assertionDoc,
                   samlb64enc, decoded, arnDict, arnStr, roleArn, principalArn, creds,
                   calls, completed, steps, prev>>

\* awsAssumeRole: awsDict = xmltodict.parse(awsXml);
\* return awsDict['AssumeRoleWithSAMLResponse']['AssumeRoleWithSAMLResult']['Credentials']
AwsReturn ==
    /\ At("aws_return")
    /\ IF ~stsResp.wellformed
       THEN /\ Raise("ExpatError", "bad_response_format", "awsAssumeRole", "parse_sts", <<>>)
            /\ UNCHANGED <<creds, completed>>
       ELSE IF stsResp.root # "AssumeRoleWithSAMLResponse" \/ ~stsResp.result
               \/ ~stsResp.credentials
       THEN /\ Raise("KeyError", "role_assumption_rejected", "awsAssumeRole",
                     "credentials", <<>>)
            /\ UNCHANGED <<creds, completed>>
       ELSE /\ creds' = stsResp.creds
            /\ completed' = completed \cup {"awsAssumeRole"}
            /\ pc' = "done"
            /\ UNCHANGED err
    /\ UNCHANGED <<oktaForwardUrl, oktaUrl, authResp, sessionToken, samlPage, assertionDoc,
                   samlb64enc, decoded, arnDict, arnStr, roleArn, principalArn, stsResp,
                   calls, reqs, steps, prev>>

\* the caller calls assume() again: no function keeps state between runs; the
\* caller remembers how its previous run failed
Restart ==
    /\ pc \in {"done", "failed"}
    /\ prev' = IF pc = "failed" THEN [kind |-> err.kind, cause |-> err.cause] ELSE prev
    /\ pc' = "start"
    /\ oktaForwardUrl' \in FullUrls
    /\ oktaUrl' = <<>>
    /\ authResp' = NoAuthResp
    /\ sessionToken' = ""
    /\ samlPage' = <<>>
    /\ assertionDoc' = NoDoc
    /\ samlb64enc' = <<>>
    /\ decoded' = NoDoc
    /\ arnDict' = NoDoc
    /\ arnStr' = <<>>
    /\ roleArn' = <<>>
    /\ principalArn' = <<>>
    /\ stsResp' = NoStsResp
    /\ creds' = NoCreds
    /\ err' = NoErr
    /\ calls' = <<>>
    /\ completed' = {}
    /\ reqs' = <<>>
    /\ steps' = <<>>

\* one run of assume()
Next ==
    \/ CallGetOktaUrl
    \/ OktaAuthPost
    \/ OktaAuthReturn
    \/ SamlGet
    \/ SamlExtract
    \/ AwsDecode
    \/ AwsParse
    \/ AwsNavigate
    \/ AwsSplit
    \/ AwsRequest
    \/ AwsReturn

Spec == Init /\ [][Next]_vars

\* runs of assume(), one after the other
NextRuns == Next \/ Restart

SpecRuns == Init /\ [][NextRuns]_vars

\* ------------------------------------------------------------- properties
StageIndex(st) == CHOOSE i \in 1..Len(StageOrder) : StageOrder[i] = st

StsRequested == \E i \in 1..Len(reqs) : reqs[i].stage = "awsAssumeRole"

\* C1: the stages are invoked in the order getOktaUrl, oktaAuth,
\* oktaGetSamlResponse, awsAssumeRole, each at most once; a stage is invoked
\* only when every earlier stage has returned; every request is sent by an
\* invoked stage, in stage order, at most one per stage; and when the run has
\* failed, the failing stage is the last one invoked and the last to send.
C1_StagesInOrder ==
    /\ IsPrefix(calls, StageOrder)
    /\ \A i \in 1..Len(calls) : i < Len(calls) => calls[i] \in completed
    /\ completed \subseteq Range(calls)
    /\ \A i \in 1..Len(reqs) : reqs[i].stage \in Range(calls)
    /\ \A i, j \in 1..Len(reqs) :
           i < j => StageIndex(reqs[i].stage) < StageIndex(reqs[j].stage)
    /\ pc = "failed" =>
           /\ calls # <<>>
           /\ err.stage = calls[Len(calls)]
           /\ err.stage \notin completed

\* a run that failed in oktaGetSamlResponse: three stages invoked, two requests
\* sent, awsAssumeRole never invoked
C1_Witness ==
    /\ pc = "failed"
    /\ err.stage = "oktaGetSamlResponse"
    /\ err.step = "find"
    /\ calls = SubSeq(StageOrder, 1, 3)
    /\ Len(reqs) = 2

\* C10: in awsAssumeRole the local steps succeed in the order b64decode,
\* parse, navigate, split; a step that has succeeded did not raise on its
\* input; the STS request is sent only when all four have succeeded; and a
\* run that failed in a local step failed in the first step not yet done, on
\* an input that makes that step raise, with no request sent to STS.
C10_StsAfterLocalSteps ==
    /\ IsPrefix(steps, LocalSteps)
    /\ Len(steps) >= 1 => ~B64Raises(samlb64enc)
    /\ Len(steps) >= 2 => ~XmlRaises(decoded)
    /\ Len(steps) >= 3 => Navigate(arnDict).ok
    /\ Len(steps) >= 4 => Len(split(arnStr)) >= 2
    /\ StsRequested => steps = LocalSteps
    /\ (pc = "failed" /\ err.stage = "awsAssumeRole" /\ err.step \in Range(LocalSteps)) =>
           /\ err.step = LocalSteps[Len(steps) + 1]
           /\ ~StsRequested
           /\ err.step = "b64decode" => B64Raises(samlb64enc)
           /\ err.step = "parse" => XmlRaises(decoded)
           /\ err.step = "navigate" => ~Navigate(arnDict).ok
           /\ err.step = "split" => Len(split(arnStr)) < 2

\* a run that failed in the split step, after three local steps, with no STS request
C10_Witness ==
    /\ pc = "failed"
    /\ err.stage = "awsAssumeRole"
    /\ err.step = "split"
    /\ steps = SubSeq(LocalSteps, 1, 3)
    /\ ~StsRequested

\* the four causes of failure a caller is to tell apart by the failure kind
ClaimedCauses ==
    {"credentials_rejected", "missing_role_attribute", "role_assumption_rejected", "network"}

\* C2: the failure a run reports is the one its first failing stage raised,
\* and two runs that fail for different causes among a credential rejection,
\* a missing role attribute, a rejected role assumption and a network failure
\* report different kinds.
C2_KindsTellCausesApart ==
    pc = "failed" =>
        /\ err.stage = calls[Len(calls)]
        /\ (prev.cause \in ClaimedCauses /\ err.cause \in ClaimedCauses
            /\ prev.cause # err.cause) => prev.kind # err.kind

\* oktaAuth has run its return statement on a response
AuthReturned == authResp # NoAuthResp /\ pc \in {"saml_get", "failed"}

\* C3: oktaAuth returns the sessionToken field only when Okta accepted the
\* credentials; on a response with status 401, or one whose JSON body has no
\* sessionToken field, it ends in AuthenticationFailed and returns no token.
C3_AuthenticationFailed ==
    /\ (AuthReturned /\ pc = "saml_get") =>
           /\ authResp.status = 200
           /\ authResp.hasToken
           /\ sessionToken = authResp.token
    /\ (AuthReturned /\ (authResp.status = 401 \/ (authResp.json /\ ~authResp.hasToken))) =>
           /\ pc = "failed"
           /\ err.kind = "AuthenticationFailed"
           /\ sessionToken = ""

\* oktaGetSamlResponse has run its lookup on a page
SamlExtracted ==
    \/ pc = "aws_decode"
    \/ pc = "failed" /\ err.stage = "oktaGetSamlResponse" /\ err.step \in {"find", "value"}

\* C4: oktaGetSamlResponse returns the percent-decoded value of the first
\* input named SAMLResponse, and on a page without such an input it ends in
\* SamlElementNotFound, not in a generic lookup error.
C4_SamlElementNotFound ==
    SamlExtracted =>
        /\ pc = "aws_decode" =>
               /\ Find(samlPage) # 0
               /\ samlb64enc = unquote(samlPage[Find(samlPage)].value)
        /\ Find(samlPage) = 0 =>
               /\ pc = "failed"
               /\ err.kind = "SamlElementNotFound"

\* awsAssumeRole has run its split statements on the attribute-value text
SplitDone ==
    \/ Len(steps) = 4
    \/ pc = "failed" /\ err.stage = "awsAssumeRole" /\ err.step = "split"

\* C5: for a text of two or more segments the principal ARN is the first
\* segment, the role ARN the second, and the STS request carries them as
\* PrincipalArn and RoleArn; for a text of fewer than two segments
\* awsAssumeRole fails with MalformedArnPair.
C5_ArnPair ==
    /\ (SplitDone /\ Len(split(arnStr)) >= 2) =>
           /\ pc # "failed" \/ err.step # "split"
           /\ principalArn = split(arnStr)[1]
           /\ roleArn = split(arnStr)[2]
    /\ \A i \in 1..Len(reqs) :
           reqs[i].stage = "awsAssumeRole" =>
               /\ QueryParam(reqs[i].url, "PrincipalArn=") = split(arnStr)[1]
               /\ QueryParam(reqs[i].url, "RoleArn=") = split(arnStr)[2]
    /\ (SplitDone /\ Len(split(arnStr)) < 2) =>
           /\ pc = "failed"
           /\ err.kind = "MalformedArnPair"

\* awsAssumeRole has run its navigation statement on the parsed document
NavigateDone ==
    \/ Len(steps) >= 3
    \/ pc = "failed" /\ err.stage = "awsAssumeRole" /\ err.step = "navigate"

\* C6: navigation fails, with MissingRoleAttribute, exactly when a node of the
\* path is absent; on a document whose attribute statement holds one or more
\* attributes it yields the attribute-value text of the first attribute.
C6_MissingRoleAttribute ==
    NavigateDone =>
        /\ PathPresent(arnDict) =>
               /\ pc # "failed" \/ err.step # "navigate"
               /\ arnStr = arnDict.text
        /\ ~PathPresent(arnDict) =>
               /\ pc = "failed"
               /\ err.kind = "MissingRoleAttribute"

\* awsAssumeRole has run its return statement on an STS response
StsReturned ==
    \/ pc = "done"
    \/ pc = "failed" /\ err.stage = "awsAssumeRole" /\ err.step \in {"parse_sts", "credentials"}

\* C7: when the STS response has the Credentials node, awsAssumeRole returns
\* its fields unchanged; on an error document or a document without the node
\* it fails with RoleAssumptionRejected and returns no credentials.
C7_RoleAssumptionRejected ==
    (StsReturned /\ stsResp.wellformed) =>
        /\ stsResp.credentials => (pc = "done" /\ creds = stsResp.creds)
        /\ ~stsResp.credentials =>
               /\ pc = "failed"
               /\ err.kind = "RoleAssumptionRejected"
               /\ creds = NoCreds

\* C8: getOktaUrl returns scheme://host for a URL with a scheme and a host and
\* fails with InvalidUrl for a URL without a scheme or without a host; no
\* authentication request goes to an origin with an empty scheme or host.
C8_InvalidUrl ==
    /\ "getOktaUrl" \in completed =>
           /\ SchemeOf(oktaForwardUrl) # <<>>
           /\ NetlocOf(oktaForwardUrl) # <<>>
           /\ oktaUrl = SchemeOf(oktaForwardUrl) \o <<":", "//">> \o NetlocOf(oktaForwardUrl)
    /\ (calls # <<>> /\ (SchemeOf(oktaForwardUrl) = <<>> \/ NetlocOf(oktaForwardUrl) = <<>>)) =>
           /\ pc = "failed"
           /\ err.stage = "getOktaUrl"
           /\ err.kind = "InvalidUrl"
    /\ \A i \in 1..Len(reqs) :
           reqs[i].stage = "oktaAuth" =>
               SchemeOf(reqs[i].url) # <<>> /\ NetlocOf(reqs[i].url) # <<>>

\* the secrets of the run: the password, the session token, the assertion text
Secrets == ({Password, sessionToken} \ {""}) \cup (Range(samlb64enc) \cap {B64Body})

\* C9: the failure of a failing run holds none of the run's secrets.
C9_NoSecretInFailure ==
    pc = "failed" => Range(err.url) \cap Secrets = {}

====
